---------------------------- MODULE Spec2Model ----------------------------
(***************************************************************************)
(* A model of dodrio's virtual-DOM diffing (src/diff.rs): diff,            *)
(* diff_listeners, diff_attributes, diff_children, create_children,        *)
(* remove_children and create, together with the three collaborators they  *)
(* drive: the CachedSet, the EventsRegistry and the ChangeListBuilder.     *)
(***************************************************************************)
EXTENDS Integers, Sequences, FiniteSets, TLC

(***************************************************************************)
(* Bounds of the model.                                                    *)
(***************************************************************************)
MaxChildren == 3
MaxTreeChildren == 2
MaxListeners == 2
MaxAttrs == 2

(* Option<&str>::None of ElementNode::namespace. *)
None == "none"

Texts == {"x", "y"}
Tags == {"div", "span"}
Namespaces == {None, "svg"}
Events == {"click", "input"}
Callbacks == {1, 2}
AttrNames == {"id", "value"}
AttrValues == {"1", "2"}
CacheIds == {1, 2}

(***************************************************************************)
(* The node model: Node, NodeKind, TextNode, ElementNode, Listener,        *)
(* Attribute.                                                              *)
(***************************************************************************)
TextNode(t) == [kind |-> "Text", text |-> t]

CachedNode(i) == [kind |-> "Cached", id |-> i]

ElementNode(tag, ns, ls, as, ch) ==
    [kind |-> "Element", tag_name |-> tag, namespace |-> ns,
     listeners |-> ls, attributes |-> as, children |-> ch]

Listener == [event : Events, callback : Callbacks]

Attribute == [name : AttrNames, value : AttrValues, volatile : BOOLEAN]

is_volatile(attr) == attr.volatile

(* Sequences over S of length at most n. *)
SeqsUpTo(S, n) == UNION {[1..k -> S] : k \in 0..n}

(***************************************************************************)
(* One diffing pass only writes to the ChangeListBuilder, the              *)
(* EventsRegistry and cached_roots and never reads them back, so every     *)
(* operation below yields the sequence of the effects it performs, in      *)
(* program order: the calls it makes, the CachedSet lookups, the registry  *)
(* operations, the cached_roots insertions and the instructions.  d is     *)
(* the nesting depth of the call: a call and the instructions its own body *)
(* emits carry d, the calls it makes carry d + 1.                          *)
(***************************************************************************)

(* ChangeListBuilder: every method appends one instruction. *)
Emit(d, ins) == << <<"instr", ins, d>> >>

(* EventsRegistry::add and EventsRegistry::remove. *)
registry_add(l) == << <<"add", l>> >>

registry_remove(l) == << <<"remove", l>> >>

(* FxHashSet::insert on cached_roots. *)
cached_roots_insert(id) == << <<"insert", id>> >>

(* CachedSet::get: the lookup; the node it returns is cs[id]. *)
cached_set_get(id) == << <<"get", id>> >>

Call(name, d, args) == << <<"call", name, d, args>> >>

RECURSIVE remove_subtree(_, _, _)
RECURSIVE RemoveListeners(_, _)
RECURSIVE RemoveSubtrees(_, _, _, _)

RemoveListeners(ls, i) ==
    IF i > Len(ls) THEN <<>>
    ELSE registry_remove(ls[i]) \o RemoveListeners(ls, i + 1)

RemoveSubtrees(cs, d, nodes, i) ==
    IF i > Len(nodes) THEN <<>>
    ELSE remove_subtree(cs, d, nodes[i]) \o RemoveSubtrees(cs, d, nodes, i + 1)

(* EventsRegistry::remove_subtree: unregister every listener under node,
   resolving Cached nodes through the CachedSet. *)
remove_subtree(cs, d, node) ==
    Call("remove_subtree", d, <<node>>) \o
    CASE node.kind = "Element" ->
           RemoveListeners(node.listeners, 1)
           \o RemoveSubtrees(cs, d + 1, node.children, 1)
      [] node.kind = "Cached" ->
           cached_set_get(node.id) \o remove_subtree(cs, d + 1, cs[node.id])
      [] OTHER -> <<>>

(***************************************************************************)
(* diff.rs                                                                 *)
(***************************************************************************)
RECURSIVE diff(_, _, _, _)
RECURSIVE create(_, _, _)
RECURSIVE diff_children(_, _, _, _)
RECURSIVE CreateListeners(_, _, _)
RECURSIVE CreateAttributes(_, _, _)
RECURSIVE CreateChildNodes(_, _, _, _)
RECURSIVE ListenersOuter1(_, _, _, _)
RECURSIVE ListenersOuter2(_, _, _, _)
RECURSIVE AttributesOuter(_, _, _, _)
RECURSIVE AttributesOuter2(_, _, _, _)
RECURSIVE DiffAligned(_, _, _, _, _, _)

(* 'outer1 of diff_listeners: new listeners i..Len(new). *)
ListenersOuter1(d, old, new, i) ==
    IF i > Len(new) THEN <<>>
    ELSE LET new_l == new[i]
             found == \E j \in 1..Len(old) : new_l.event = old[j].event
         IN  registry_add(new_l)
             \o (IF found THEN Emit(d, <<"update_event_listener", new_l>>)
                          ELSE Emit(d, <<"new_event_listener", new_l>>))
             \o ListenersOuter1(d, old, new, i + 1)

(* 'outer2 of diff_listeners: old listeners i..Len(old). *)
ListenersOuter2(d, old, new, i) ==
    IF i > Len(old) THEN <<>>
    ELSE LET old_l == old[i]
             found == \E j \in 1..Len(new) : new[j].event = old_l.event
         IN  registry_remove(old_l)
             \o (IF found THEN <<>>
                 ELSE Emit(d, <<"remove_event_listener", old_l.event>>))
             \o ListenersOuter2(d, old, new, i + 1)

(* A faulty variant of diff_listeners: 'outer2 runs before 'outer1. *)
diff_listeners_outer2_first(d, old, new) ==
    Call("diff_listeners", d, <<old, new>>)
    \o ListenersOuter2(d, old, new, 1) \o ListenersOuter1(d, old, new, 1)

diff_listeners(d, old, new) ==
    Call("diff_listeners", d, <<old, new>>)
    \o ListenersOuter1(d, old, new, 1) \o ListenersOuter2(d, old, new, 1)

(* A faulty variant of FirstSameName: the scan keeps the last old attribute of that
   name. *)
LastSameName(old, name) ==
    LET hits == {j \in 1..Len(old) : old[j].name = name}
    IN  IF hits = {} THEN 0
        ELSE CHOOSE j \in hits : \A k \in hits : k <= j

(* The inner loop of 'outer stops at the first old attribute of that name
   (0: there is none). *)
FirstSameName(old, name) ==
    LET hits == {j \in 1..Len(old) : old[j].name = name}
    IN  IF hits = {} THEN 0
        ELSE CHOOSE j \in hits : \A k \in hits : j <= k

(* 'outer of diff_attributes: new attributes i..Len(new). *)
AttributesOuter(d, old, new, i) ==
    IF i > Len(new) THEN <<>>
    ELSE LET new_attr == new[i]
             set == Emit(d, <<"set_attribute", new_attr.name, new_attr.value>>)
             j == FirstSameName(old, new_attr.name)
         IN  (IF is_volatile(new_attr) THEN set
              ELSE IF j # 0
                   THEN IF old[j].value # new_attr.value THEN set ELSE <<>>
                   ELSE set)
             \o AttributesOuter(d, old, new, i + 1)

RECURSIVE AttributesOuter2NotVolatile(_, _, _, _)

(* A faulty variant of AttributesOuter2: a volatile new attribute does not count as
   one of the same name. *)
AttributesOuter2NotVolatile(d, old, new, i) ==
    IF i > Len(old) THEN <<>>
    ELSE LET old_attr == old[i]
             found == \E j \in 1..Len(new) :
                         old_attr.name = new[j].name /\ ~is_volatile(new[j])
         IN  (IF found THEN <<>>
                       ELSE Emit(d, <<"remove_attribute", old_attr.name>>))
             \o AttributesOuter2NotVolatile(d, old, new, i + 1)

(* 'outer2 of diff_attributes: old attributes i..Len(old). *)
AttributesOuter2(d, old, new, i) ==
    IF i > Len(old) THEN <<>>
    ELSE LET old_attr == old[i]
             found == \E j \in 1..Len(new) : old_attr.name = new[j].name
         IN  (IF found THEN <<>>
                       ELSE Emit(d, <<"remove_attribute", old_attr.name>>))
             \o AttributesOuter2(d, old, new, i + 1)

diff_attributes(d, old, new) ==
    Call("diff_attributes", d, <<old, new>>)
    \o AttributesOuter(d, old, new, 1) \o AttributesOuter2(d, old, new, 1)

(* for l in listeners, of create. *)
CreateListeners(d, ls, i) ==
    IF i > Len(ls) THEN <<>>
    ELSE registry_add(ls[i]) \o Emit(d, <<"new_event_listener", ls[i]>>)
         \o CreateListeners(d, ls, i + 1)

(* for attr in attributes, of create. *)
CreateAttributes(d, as, i) ==
    IF i > Len(as) THEN <<>>
    ELSE Emit(d, <<"set_attribute", as[i].name, as[i].value>>)
         \o CreateAttributes(d, as, i + 1)

RECURSIVE CreateChildNodesUnappended(_, _, _, _)

(* A faulty variant of CreateChildNodes: the last child is created and left on
   the stack, without append_child. *)
CreateChildNodesUnappended(cs, d, nodes, i) ==
    IF i > Len(nodes) THEN <<>>
    ELSE create(cs, d + 1, nodes[i])
         \o (IF i < Len(nodes) THEN Emit(d, <<"append_child">>) ELSE <<>>)
         \o CreateChildNodesUnappended(cs, d, nodes, i + 1)

(* for child in ...: create, then append_child (create, create_children);
   d is the depth of the function whose loop this is. *)
CreateChildNodes(cs, d, nodes, i) ==
    IF i > Len(nodes) THEN <<>>
    ELSE create(cs, d + 1, nodes[i]) \o Emit(d, <<"append_child">>)
         \o CreateChildNodes(cs, d, nodes, i + 1)

create(cs, d, node) ==
    Call("create", d, <<node>>) \o
    CASE node.kind = "Text" -> Emit(d, <<"create_text_node", node.text>>)
      [] node.kind = "Element" ->
           (IF node.namespace # None
            THEN Emit(d, <<"create_element_ns", node.tag_name, node.namespace>>)
            ELSE Emit(d, <<"create_element", node.tag_name>>))
           \o CreateListeners(d, node.listeners, 1)
           \o CreateAttributes(d, node.attributes, 1)
           \o CreateChildNodes(cs, d, node.children, 1)
      [] node.kind = "Cached" ->
           cached_roots_insert(node.id) \o cached_set_get(node.id)
           \o create(cs, d + 1, cs[node.id])

(* A faulty variant of create_children: the iterator is taken from the start. *)
create_children_rewound(cs, d, new, from) ==
    Call("create_children", d, <<SubSeq(new, from, Len(new))>>)
    \o CreateChildNodes(cs, d, new, 1)

(* create_children over the iterator that is at new[from]. *)
create_children(cs, d, new, from) ==
    Call("create_children", d, <<SubSeq(new, from, Len(new))>>)
    \o CreateChildNodes(cs, d, new, from)

(* A faulty variant of remove_children: the children are cleared without
   remove_subtree. *)
remove_children_clear_only(cs, d, old) ==
    Call("remove_children", d, <<old>>) \o Emit(d, <<"set_text", "">>)

remove_children(cs, d, old) ==
    Call("remove_children", d, <<old>>)
    \o RemoveSubtrees(cs, d + 1, old, 1) \o Emit(d, <<"set_text", "">>)

RECURSIVE DiffAlignedDescending(_, _, _, _, _, _)

(* A faulty variant of DiffAligned: every pair descends, as if i were always 0. *)
DiffAlignedDescending(cs, d, old, new, i, n) ==
    IF i > n THEN <<>>
    ELSE Emit(d, <<"push_first_child">>)
         \o diff(cs, d + 1, old[i], new[i])
         \o DiffAlignedDescending(cs, d, old, new, i + 1, n)

(* The zip/take/enumerate loop of diff_children: pairs i..n (from 1). *)
DiffAligned(cs, d, old, new, i, n) ==
    IF i > n THEN <<>>
    ELSE (IF i = 1 THEN Emit(d, <<"push_first_child">>)
                   ELSE Emit(d, <<"pop_push_next_sibling">>))
         \o diff(cs, d + 1, old[i], new[i])
         \o DiffAligned(cs, d, old, new, i + 1, n)

Min(a, b) == IF a <= b THEN a ELSE b

(* A faulty variant of AfterAligned: the branch that creates the new children does
   not pop back to the parent first. *)
AfterAlignedNoPop(cs, d, old, new, n, pushed) ==
    IF Len(old) > n
    THEN [effects |-> (IF pushed THEN Emit(d, <<"pop_push_next_sibling">>)
                                 ELSE Emit(d, <<"push_first_child">>))
                      \o Emit(d, <<"remove_self_and_next_siblings">>),
          pushed |-> FALSE]
    ELSE [effects |-> create_children(cs, d + 1, new, n + 1),
          pushed |-> FALSE]

(* A faulty variant of AfterAligned: the test of `pushed` before the removal of the
   excess old children is inverted. *)
AfterAlignedDescend(cs, d, old, new, n, pushed) ==
    IF Len(old) > n
    THEN [effects |-> (IF ~pushed THEN Emit(d, <<"pop_push_next_sibling">>)
                                  ELSE Emit(d, <<"push_first_child">>))
                      \o Emit(d, <<"remove_self_and_next_siblings">>),
          pushed |-> FALSE]
    ELSE [effects |-> (IF pushed THEN Emit(d, <<"pop">>) ELSE <<>>)
                      \o create_children(cs, d + 1, new, n + 1),
          pushed |-> FALSE]

(* What follows the loop of diff_children: the effects, and `pushed` as the
   if/else leaves it. *)
AfterAligned(cs, d, old, new, n, pushed) ==
    IF Len(old) > n
    THEN [effects |-> (IF pushed THEN Emit(d, <<"pop_push_next_sibling">>)
                                 ELSE Emit(d, <<"push_first_child">>))
                      \o Emit(d, <<"remove_self_and_next_siblings">>),
          pushed |-> FALSE]
    ELSE [effects |-> (IF pushed THEN Emit(d, <<"pop">>) ELSE <<>>)
                      \o create_children(cs, d + 1, new, n + 1),
          pushed |-> FALSE]

diff_children(cs, d, old, new) ==
    Call("diff_children", d, <<old, new>>) \o
    IF Len(new) = 0
    THEN IF Len(old) # 0 THEN remove_children(cs, d + 1, old) ELSE <<>>
    ELSE IF Len(old) = 0
    THEN create_children(cs, d + 1, new, 1)
    ELSE LET num_children_to_diff == Min(Len(new), Len(old))
             rest == AfterAligned(cs, d, old, new, num_children_to_diff,
                                  num_children_to_diff > 0)
         IN  DiffAligned(cs, d, old, new, 1, num_children_to_diff)
             \o rest.effects
             \o (IF rest.pushed THEN Emit(d, <<"pop">>) ELSE <<>>)

(* A faulty variant of Replace: the old subtree is unregistered before the new
   one is created. *)
ReplaceRemoveFirst(cs, d, old, new) ==
    remove_subtree(cs, d + 1, old) \o create(cs, d + 1, new)
    \o Emit(d, <<"replace_with">>)

(* create(new); registry.remove_subtree(&old); change_list.replace_with() *)
Replace(cs, d, old, new) ==
    create(cs, d + 1, new) \o remove_subtree(cs, d + 1, old)
    \o Emit(d, <<"replace_with">>)

(* A faulty variant of TextText: set_text whether or not the text changed. *)
TextTextAlways(d, old, new) == Emit(d, <<"set_text", new.text>>)

(* A faulty variant of TextText: the text set is the old one. *)
TextTextOld(d, old, new) ==
    IF new.text # old.text THEN Emit(d, <<"set_text", old.text>>) ELSE <<>>

(* The arm of diff for two text nodes. *)
TextText(d, old, new) ==
    IF new.text # old.text THEN Emit(d, <<"set_text", new.text>>) ELSE <<>>

(* A faulty variant of SameCached: the ids are never taken to be equal. *)
SameCachedNever(old, new) == FALSE

(* new.id == old.id of the arm of diff for two cached nodes. *)
SameCached(old, new) == new.id = old.id

(* A faulty variant of RecordedId: the id of the old node is recorded. *)
RecordedIdOld(old, new) == old.id

(* The id of cached_roots.insert in the arm of diff for two cached nodes. *)
RecordedId(old, new) == new.id

(* A faulty variant of Resolved: the nodes are not resolved, and diff recurses on
   the two Cached nodes themselves. *)
Unresolved(cs, old, new) == <<old, new>>

(* A faulty variant of Resolved: old and new the wrong way round. *)
ResolvedSwapped(cs, old, new) == <<cs[new.id], cs[old.id]>>

(* cached_set.get of both ids: the nodes diff recurses on, <<old, new>>. *)
Resolved(cs, old, new) == <<cs[old.id], cs[new.id]>>

(* A faulty variant of PatchInPlace: the attributes are patched before the
   listeners. *)
PatchInPlaceAttributesFirst(cs, d, old, new) ==
    diff_attributes(d + 1, old.attributes, new.attributes)
    \o diff_listeners(d + 1, old.listeners, new.listeners)
    \o diff_children(cs, d + 1, old.children, new.children)

(* diff_listeners, diff_attributes, diff_children of two elements of one tag
   name and namespace. *)
PatchInPlace(cs, d, old, new) ==
    diff_listeners(d + 1, old.listeners, new.listeners)
    \o diff_attributes(d + 1, old.attributes, new.attributes)
    \o diff_children(cs, d + 1, old.children, new.children)

(* A faulty variant of DifferentElement: the namespaces are not compared. *)
DifferentElementTagOnly(old, new) == new.tag_name # old.tag_name

(* new_tag_name != old_tag_name || new_namespace != old_namespace *)
DifferentElement(old, new) ==
    new.tag_name # old.tag_name \/ new.namespace # old.namespace

diff(cs, d, old, new) ==
    Call("diff", d, <<old, new>>) \o
    CASE new.kind = "Text" /\ old.kind = "Text" -> TextText(d, old, new)
      [] new.kind = "Text" /\ old.kind = "Element" -> Replace(cs, d, old, new)
      [] new.kind = "Element" /\ old.kind = "Text" ->
           create(cs, d + 1, new) \o Emit(d, <<"replace_with">>)
      [] new.kind = "Element" /\ old.kind = "Element" ->
           IF DifferentElement(old, new)
           THEN Replace(cs, d, old, new)
           ELSE PatchInPlace(cs, d, old, new)
      [] new.kind = "Cached" /\ old.kind = "Cached" ->
           cached_roots_insert(RecordedId(old, new))
           \o (IF SameCached(old, new) THEN <<>>
               ELSE cached_set_get(new.id) \o cached_set_get(old.id)
                    \o diff(cs, d + 1, Resolved(cs, old, new)[1],
                            Resolved(cs, old, new)[2]))
      [] new.kind = "Cached" /\ old.kind # "Cached" ->
           cached_roots_insert(new.id) \o cached_set_get(new.id)
           \o Replace(cs, d, old, cs[new.id])
      [] new.kind # "Cached" /\ old.kind = "Cached" -> Replace(cs, d, old, new)

(***************************************************************************)
(* The bodies of diff, create, diff_children and create_children one call  *)
(* at a time: a call the body makes is left as a frame, to be entered      *)
(* later, instead of being followed.                                       *)
(***************************************************************************)
Frame(name, d, args) == << <<"frame", name, d, args>> >>

(* for child in ...: create, then append_child. *)
CreateFrames(d, nodes) ==
    [k \in 1..(2 * Len(nodes)) |->
        IF k % 2 = 1 THEN <<"frame", "create", d + 1, <<nodes[(k + 1) \div 2]>> >>
        ELSE <<"instr", <<"append_child">>, d>>]

(* The body of create. *)
create_body(cs, d, node) ==
    CASE node.kind = "Text" -> Emit(d, <<"create_text_node", node.text>>)
      [] node.kind = "Element" ->
           (IF node.namespace # None
            THEN Emit(d, <<"create_element_ns", node.tag_name, node.namespace>>)
            ELSE Emit(d, <<"create_element", node.tag_name>>))
           \o CreateListeners(d, node.listeners, 1)
           \o CreateAttributes(d, node.attributes, 1)
           \o CreateFrames(d, node.children)
      [] node.kind = "Cached" ->
           cached_roots_insert(node.id) \o cached_set_get(node.id)
           \o Frame("create", d + 1, <<cs[node.id]>>)

(* The body of create_children. *)
create_children_body(d, nodes) == CreateFrames(d, nodes)

(* The body of diff_children. *)
diff_children_body(cs, d, old, new) ==
    IF Len(new) = 0
    THEN IF Len(old) # 0 THEN remove_children(cs, d + 1, old) ELSE <<>>
    ELSE IF Len(old) = 0
    THEN Frame("create_children", d + 1, <<new>>)
    ELSE LET num_children_to_diff == Min(Len(new), Len(old))
             pushed == num_children_to_diff > 0
         IN  [k \in 1..(2 * num_children_to_diff) |->
                 IF k = 1 THEN <<"instr", <<"push_first_child">>, d>>
                 ELSE IF k % 2 = 1
                 THEN <<"instr", <<"pop_push_next_sibling">>, d>>
                 ELSE <<"frame", "diff", d + 1,
                        <<old[k \div 2], new[k \div 2]>> >>]
             \o (IF Len(old) > num_children_to_diff
                 THEN (IF pushed THEN Emit(d, <<"pop_push_next_sibling">>)
                                 ELSE Emit(d, <<"push_first_child">>))
                      \o Emit(d, <<"remove_self_and_next_siblings">>)
                 ELSE (IF pushed THEN Emit(d, <<"pop">>) ELSE <<>>)
                      \o Frame("create_children", d + 1,
                               <<SubSeq(new, num_children_to_diff + 1,
                                        Len(new))>>))

(* create(new); registry.remove_subtree(&old); change_list.replace_with() *)
ReplaceFrames(cs, d, old, new) ==
    Frame("create", d + 1, <<new>>) \o remove_subtree(cs, d + 1, old)
    \o Emit(d, <<"replace_with">>)

(* The body of diff. *)
diff_body(cs, d, old, new) ==
    CASE new.kind = "Text" /\ old.kind = "Text" -> TextText(d, old, new)
      [] new.kind = "Text" /\ old.kind = "Element" ->
           ReplaceFrames(cs, d, old, new)
      [] new.kind = "Element" /\ old.kind = "Text" ->
           Frame("create", d + 1, <<new>>) \o Emit(d, <<"replace_with">>)
      [] new.kind = "Element" /\ old.kind = "Element" ->
           IF DifferentElement(old, new)
           THEN ReplaceFrames(cs, d, old, new)
           ELSE diff_listeners(d + 1, old.listeners, new.listeners)
                \o diff_attributes(d + 1, old.attributes, new.attributes)
                \o Frame("diff_children", d + 1, <<old.children, new.children>>)
      [] new.kind = "Cached" /\ old.kind = "Cached" ->
           cached_roots_insert(RecordedId(old, new))
           \o (IF SameCached(old, new) THEN <<>>
               ELSE cached_set_get(new.id) \o cached_set_get(old.id)
                    \o Frame("diff", d + 1, Resolved(cs, old, new)))
      [] new.kind = "Cached" /\ old.kind # "Cached" ->
           cached_roots_insert(new.id) \o cached_set_get(new.id)
           \o ReplaceFrames(cs, d, old, cs[new.id])
      [] new.kind # "Cached" /\ old.kind = "Cached" ->
           ReplaceFrames(cs, d, old, new)

(* The body of the call the frame f stands for. *)
Body(cs, f) ==
    CASE f[2] = "diff" -> diff_body(cs, f[3], f[4][1], f[4][2])
      [] f[2] = "create" -> create_body(cs, f[3], f[4][1])
      [] f[2] = "diff_children" -> diff_children_body(cs, f[3], f[4][1], f[4][2])
      [] f[2] = "create_children" -> create_children_body(f[3], f[4][1])

(* How many items run before the first call not yet entered. *)
Straight(items) ==
    CHOOSE n \in 0..Len(items) :
        /\ \A i \in 1..n : items[i][1] # "frame"
        /\ n = Len(items) \/ items[n + 1][1] = "frame"

(***************************************************************************)
(* What a sequence of effects leaves behind.                               *)
(***************************************************************************)
Last(S) == CHOOSE i \in S : \A k \in S : k <= i

(* change_list: the instructions, in order. *)
Instructions(effects) ==
    LET ins == SelectSeq(effects, LAMBDA e : e[1] = "instr")
    IN  [i \in 1..Len(ins) |-> ins[i][2]]

(* EventsRegistry: a listener is active when the last add or remove of it
   was an add, or when it was active before and was not touched. *)
RegistryAfter(reg0, effects) ==
    LET touched(l) == {i \in 1..Len(effects) :
                          /\ effects[i][1] \in {"add", "remove"}
                          /\ effects[i][2] = l}
        named == {effects[i][2] : i \in {k \in 1..Len(effects) :
                                             effects[k][1] = "add"}}
    IN  {l \in reg0 \cup named :
            IF touched(l) = {} THEN l \in reg0
            ELSE effects[Last(touched(l))][1] = "add"}

(* cached_roots: the ids inserted. *)
CachedRootsAfter(effects) ==
    {effects[i][2] : i \in {k \in 1..Len(effects) : effects[k][1] = "insert"}}

(***************************************************************************)
(* The inputs: listeners, attributes, nodes, trees and cached sets.        *)
(***************************************************************************)
ListenerSeqs == SeqsUpTo(Listener, MaxListeners)

AttributeSeqs == SeqsUpTo(Attribute, MaxAttrs)

Click1 == [event |-> "click", callback |-> 1]

Click2 == [event |-> "click", callback |-> 2]

Input1 == [event |-> "input", callback |-> 1]

IdAttr(v) == [name |-> "id", value |-> v, volatile |-> FALSE]

ValueAttr(v) == [name |-> "value", value |-> v, volatile |-> TRUE]

(* The nodes child sequences are made of. *)
Kids ==
    {TextNode("x"), TextNode("y"), CachedNode(1),
     ElementNode("div", None, <<Click1>>, <<IdAttr("1")>>, <<TextNode("x")>>)}

ChildSeqs == SeqsUpTo(Kids, MaxChildren)

(* tag, namespace, listeners and attributes of the root elements. *)
RootShapes ==
    {<<"div", None, <<>>, <<>> >>,
     <<"div", None, <<Click1>>, <<IdAttr("1")>> >>,
     <<"div", None, <<Click2, Input1>>, <<IdAttr("2"), ValueAttr("1")>> >>,
     <<"span", None, <<Click1>>, <<>> >>,
     <<"div", None, <<>>, <<IdAttr("1"), IdAttr("2")>> >>,
     <<"div", "svg", <<>>, <<IdAttr("1")>> >>}

Trees ==
    Kids \cup {CachedNode(2)}
    \cup {ElementNode(d[1], d[2], d[3], d[4], ch) :
              d \in RootShapes, ch \in SeqsUpTo(Kids, MaxTreeChildren)}

(* CachedSets: every id is present and resolution is acyclic. *)
CachedSets ==
    {(1 :> TextNode("x")) @@ (2 :> TextNode("y")),
     (1 :> ElementNode("span", None, <<Click1>>, <<>>, <<TextNode("y")>>))
        @@ (2 :> ElementNode("div", None, <<Click2>>, <<>>, <<CachedNode(1)>>))}

(***************************************************************************)
(* The state machine: one call of an operation of diff.rs on inputs drawn  *)
(* from the sets above, from the registry the previous render left.        *)
(***************************************************************************)
VARIABLES cached_set, op, old, new, registry0,
          change_list, registry, cached_roots, trace, pending

vars == <<cached_set, op, old, new, registry0,
          change_list, registry, cached_roots, trace, pending>>

Init ==
    /\ cached_set \in CachedSets
    /\ op = "idle"
    /\ old = <<>>
    /\ new = <<>>
    /\ registry0 = {}
    /\ change_list = <<>>
    /\ registry = {}
    /\ cached_roots = {}
    /\ trace = <<>>
    /\ pending = <<>>

Returned(name, o, n, reg0, effects) ==
    /\ op' = name
    /\ old' = o
    /\ new' = n
    /\ registry0' = reg0
    /\ change_list' = Instructions(effects)
    /\ registry' = RegistryAfter(reg0, effects)
    /\ cached_roots' = CachedRootsAfter(effects)
    /\ trace' = effects
    /\ UNCHANGED <<cached_set, pending>>

(* The registry after the render that committed the tree `node`. *)
Rendered(cs, node) == RegistryAfter({}, create(cs, 0, node))

RenderedChildren(cs, nodes) == RegistryAfter({}, create_children(cs, 0, nodes, 1))

Diff ==
    /\ op = "idle"
    /\ \E o \in Trees, n \in Trees :
          Returned("diff", o, n, Rendered(cached_set, o),
                   diff(cached_set, 0, o, n))

Create ==
    /\ op = "idle"
    /\ \E n \in Trees :
          Returned("create", <<>>, n, {}, create(cached_set, 0, n))

DiffChildren ==
    /\ op = "idle"
    /\ \E o \in ChildSeqs, n \in ChildSeqs :
          Returned("diff_children", o, n, RenderedChildren(cached_set, o),
                   diff_children(cached_set, 0, o, n))

DiffListeners ==
    /\ op = "idle"
    /\ \E o \in ListenerSeqs, n \in ListenerSeqs :
          Returned("diff_listeners", o, n, {o[i] : i \in 1..Len(o)},
                   diff_listeners(0, o, n))

DiffAttributes ==
    /\ op = "idle"
    /\ \E o \in AttributeSeqs, n \in AttributeSeqs :
          Returned("diff_attributes", o, n, {}, diff_attributes(0, o, n))

(***************************************************************************)
(* diff call by call.  `pending` holds what is left to do, the next thing  *)
(* first: the calls of diff, create, diff_children and create_children not *)
(* yet entered, and between them the effects of the code that runs once    *)
(* the call before has returned.  One step enters the first call and runs  *)
(* its body up to the first call the body makes.  diff_listeners,          *)
(* diff_attributes, remove_children and the registry's remove_subtree make *)
(* no call of diff or create and are run whole.                            *)
(***************************************************************************)
MaxRunChildren == 2

(* No pass has more effects than this. *)
MaxEffects == 200

(* The trees diffed call by call: the nodes child sequences are made of, a
   Cached node that resolves to one holding a Cached node, and elements over
   children of every kind. *)
RunTrees ==
    Kids \cup {CachedNode(2)}
    \cup {ElementNode("span", None, <<Click1>>, <<IdAttr("1")>>, ch) :
              ch \in SeqsUpTo(Kids \ {TextNode("y")}, MaxRunChildren)}

(* The caller enters diff(old, new) with an empty cached_roots. *)
Start ==
    /\ op = "idle"
    /\ \E o \in RunTrees, n \in RunTrees :
          /\ old' = o
          /\ new' = n
          /\ registry0' = Rendered(cached_set, o)
          /\ registry' = Rendered(cached_set, o)
          /\ pending' = Frame("diff", 0, <<o, n>>)
    /\ op' = "running"
    /\ change_list' = <<>>
    /\ cached_roots' = {}
    /\ trace' = <<>>
    /\ UNCHANGED cached_set

(* The first call of `pending` is entered and runs up to its first call;
   when nothing is left, diff has returned. *)
Step ==
    /\ op = "running"
    /\ pending # <<>>
    /\ Len(trace) < MaxEffects
    /\ LET f == Head(pending)
           todo == Body(cached_set, f) \o Tail(pending)
           n == Straight(todo)
       IN  /\ trace' = trace \o Call(f[2], f[3], f[4]) \o SubSeq(todo, 1, n)
           /\ pending' = SubSeq(todo, n + 1, Len(todo))
    /\ change_list' = Instructions(trace')
    /\ registry' = RegistryAfter(registry0, trace')
    /\ cached_roots' = CachedRootsAfter(trace')
    /\ op' = IF pending' = <<>> THEN "returned" ELSE "running"
    /\ UNCHANGED <<cached_set, old, new, registry0>>

Next ==
    \/ Diff \/ Create \/ DiffChildren \/ DiffListeners \/ DiffAttributes
    \/ Start \/ Step

Spec == Init /\ [][Next]_vars

SpecDiff == Init /\ [][Diff]_vars

SpecCreate == Init /\ [][Create]_vars

SpecChildren == Init /\ [][DiffChildren]_vars

SpecListeners == Init /\ [][DiffListeners]_vars

SpecAttributes == Init /\ [][DiffAttributes]_vars

(* diff is synchronous and single-threaded: once entered, it keeps running. *)
SpecRun == Init /\ [][Start \/ Step]_vars /\ WF_vars(Step)

(***************************************************************************)
(* The cursor of the ChangeListBuilder, as the instructions move it.  The  *)
(* builder keeps a stack of nodes whose top is the current node.  A node   *)
(* of the DOM being patched is the path of child indices that leads to it, *)
(* a node created by this pass is Fresh.                                   *)
(***************************************************************************)
Fresh == <<"fresh">>

Root == <<"root">>

(* The builder was driven outside the vocabulary's preconditions. *)
Broken == << <<"broken">> >>

Top(stack) == stack[Len(stack)]

Below(stack) == SubSeq(stack, 1, Len(stack) - 1)

Creates == {"create_text_node", "create_element", "create_element_ns"}

CursorStep(stack, ins) ==
    IF stack = Broken THEN Broken
    ELSE CASE ins[1] = "push_first_child" ->
                IF Top(stack) = Fresh THEN Broken
                ELSE Append(stack, Top(stack) \o <<0>>)
           [] ins[1] = "pop_push_next_sibling" ->
                IF Len(stack) < 2 \/ Top(stack) = Fresh THEN Broken
                ELSE LET t == Top(stack)
                     IN  Append(Below(stack),
                                SubSeq(t, 1, Len(t) - 1) \o <<t[Len(t)] + 1>>)
           [] ins[1] = "pop" ->
                IF Len(stack) < 2 \/ Top(stack) = Fresh THEN Broken
                ELSE Below(stack)
           [] ins[1] = "remove_self_and_next_siblings" ->
                IF Len(stack) < 2 \/ Top(stack) = Fresh THEN Broken
                ELSE Below(stack)
           [] ins[1] \in Creates -> Append(stack, Fresh)
           [] ins[1] = "append_child" ->
                IF Len(stack) < 2 \/ Top(stack) # Fresh THEN Broken
                ELSE Below(stack)
           [] ins[1] = "replace_with" ->
                IF Len(stack) < 2 \/ Top(stack) # Fresh
                   \/ Top(Below(stack)) = Fresh
                THEN Broken
                ELSE Below(stack)
           [] OTHER -> stack

RECURSIVE RunCursor(_, _, _)

(* The stack after instructions i..Len(cl) of cl. *)
RunCursor(stack, cl, i) ==
    IF i > Len(cl) THEN stack
    ELSE RunCursor(CursorStep(stack, cl[i]), cl, i + 1)

(***************************************************************************)
(* Vocabulary of the properties.                                           *)
(***************************************************************************)
RECURSIVE ListenersOf(_, _)

(* The listeners reachable from node, Cached nodes resolved through cs. *)
ListenersOf(cs, node) ==
    CASE node.kind = "Element" ->
           {node.listeners[i] : i \in 1..Len(node.listeners)}
           \cup UNION {ListenersOf(cs, node.children[i]) :
                           i \in 1..Len(node.children)}
      [] node.kind = "Cached" -> ListenersOf(cs, cs[node.id])
      [] OTHER -> {}

(* How many instructions of the change list cl are `name`. *)
CountInstr(cl, name) == Cardinality({i \in 1..Len(cl) : cl[i][1] = name})

(***************************************************************************)
(* C1 (registry completeness): if before diff(old, new) the registry holds *)
(* exactly the listeners reachable from old, then after diff returns every *)
(* listener reachable from new is registered.  The code does not keep      *)
(* this: a listener that old and new share is added and then removed.      *)
(***************************************************************************)
C1_RegistryComplete ==
    (op = "diff" /\ registry0 = ListenersOf(cached_set, old))
        => ListenersOf(cached_set, new) \subseteq registry

(***************************************************************************)
(* C2 (no dangling registration): after diff(old, new) returns, no         *)
(* listener that was registered for old and is not reachable from new is   *)
(* still registered.  The code does not keep this: the old children past   *)
(* the last new child are removed from the DOM without remove_subtree.     *)
(***************************************************************************)
C2_NoDanglingRegistration ==
    (op = "diff" /\ registry0 = ListenersOf(cached_set, old))
        => \A l \in registry0 \ ListenersOf(cached_set, new) : l \notin registry

(* The render before always leaves exactly the listeners of the old tree. *)
RegistryStartsExact ==
    op = "diff" => registry0 = ListenersOf(cached_set, old)

(***************************************************************************)
(* C3 (cursor balance): the instructions of any diff_children call leave   *)
(* the builder's stack, hence the cursor's depth and position, as they     *)
(* were at entry, and every push_first_child is matched by a pop or by the *)
(* remove_self_and_next_siblings that takes the cursor off the removed     *)
(* child.                                                                  *)
(***************************************************************************)
C3_CursorBalanced ==
    op = "diff_children" =>
        /\ RunCursor(<<Root>>, change_list, 1) = <<Root>>
        /\ CountInstr(change_list, "push_first_child")
             = CountInstr(change_list, "pop")
               + CountInstr(change_list, "remove_self_and_next_siblings")

(* C3 as stated: every push_first_child is matched by a pop. *)
C3_EveryPushMatchedByPop ==
    op = "diff_children" =>
        CountInstr(change_list, "push_first_child")
            = CountInstr(change_list, "pop")

(* Old longer than new after two aligned pairs, one of which descends. *)
C3_Witness ==
    /\ op = "diff_children"
    /\ Len(old) > Len(new)
    /\ Len(new) = 2
    /\ CountInstr(change_list, "push_first_child") = 2
    /\ CountInstr(change_list, "replace_with") = 1
    /\ RunCursor(<<Root>>, change_list, 1) = <<Root>>

(* No attribute of `as` makes diff_attributes(as, as) emit a set_attribute. *)
QuietAttributes(as) ==
    \A i \in 1..Len(as) :
        /\ ~is_volatile(as[i])
        /\ as[FirstSameName(as, as[i].name)].value = as[i].value

Quiet(node) ==
    node.kind = "Element" =>
        /\ node.children = <<>>
        /\ node.listeners = <<>>
        /\ QuietAttributes(node.attributes)

PatchOnly ==
    {"update_event_listener", "set_attribute",
     "push_first_child", "pop_push_next_sibling", "pop"}

(***************************************************************************)
(* C4 (idempotence): diff(T, T) emits no instruction exactly when T is a   *)
(* Text node, a Cached node, or an Element with no children, no listeners, *)
(* no volatile attribute and no attribute that differs in value from the   *)
(* first attribute of its name; for any T it emits nothing but             *)
(* update_event_listener, set_attribute and the cursor moves of the child  *)
(* traversal.                                                              *)
(***************************************************************************)
C4_IdempotentWhenQuiet ==
    (op = "diff" /\ old = new) =>
        /\ (change_list = <<>>) <=> Quiet(new)
        /\ \A i \in 1..Len(change_list) : change_list[i][1] \in PatchOnly

(* C4 as stated: diff(T, T) emits nothing for any T. *)
C4_Idempotent == (op = "diff" /\ old = new) => change_list = <<>>

C4_Witness ==
    /\ op = "diff"
    /\ old = new
    /\ new.kind = "Element"
    /\ Len(new.children) = 2
    /\ Len(new.listeners) = 2
    /\ CountInstr(change_list, "update_event_listener") = 3
    /\ CountInstr(change_list, "set_attribute") = 1
    /\ CountInstr(change_list, "pop") = 2

C4_WitnessQuiet ==
    /\ op = "diff"
    /\ old = new
    /\ new.kind = "Element"
    /\ Len(new.attributes) = 1
    /\ change_list = <<>>

(* The effect e is a call of diff on two Cached nodes of one id. *)
IsDiffOfSameCached(e) ==
    /\ e[1] = "call"
    /\ e[2] = "diff"
    /\ e[4][1].kind = "Cached"
    /\ e[4][2].kind = "Cached"
    /\ e[4][1].id = e[4][2].id

(* The event is not an effect of the call of depth d before it. *)
Outside(e, d) ==
    \/ e[1] = "instr" /\ e[3] < d
    \/ e[1] = "call" /\ e[3] <= d

(***************************************************************************)
(* C5 (cache short-circuit): for two Cached nodes of equal id, diff        *)
(* inserts that id into cached_roots and does nothing else: no             *)
(* instruction, no registry operation, no CachedSet lookup, no call.  The  *)
(* same holds of every such diff call nested in a pass.                    *)
(***************************************************************************)
C5_CacheShortCircuit ==
    op = "diff" =>
        /\ (old.kind = "Cached" /\ new.kind = "Cached" /\ old.id = new.id) =>
              /\ trace = Call("diff", 0, <<old, new>>)
                         \o cached_roots_insert(new.id)
              /\ cached_roots = {new.id}
              /\ change_list = <<>>
              /\ registry = registry0
        /\ \A i \in 1..Len(trace) :
              IsDiffOfSameCached(trace[i]) =>
                  /\ i < Len(trace)
                  /\ trace[i + 1] = <<"insert", trace[i][4][2].id>>
                  /\ i + 2 <= Len(trace) => Outside(trace[i + 2], trace[i][3])

C5_Witness ==
    /\ op = "diff"
    /\ old = CachedNode(1)
    /\ new = CachedNode(1)
    /\ registry0 # {}
    /\ cached_roots = {1}
    /\ Len(trace) = 2

C5_WitnessNested ==
    /\ op = "diff"
    /\ \E i \in 1..Len(trace) : IsDiffOfSameCached(trace[i]) /\ trace[i][3] = 2
    /\ change_list # <<>>

(* The registry operations and cached_roots insertions, in order. *)
Observable(effects) ==
    SelectSeq(effects, LAMBDA e : e[1] \in {"add", "remove", "insert"})

(***************************************************************************)
(* C6 (cache divergence): for two Cached nodes of different ids, the       *)
(* instructions, the registry operations and the cached_roots insertions   *)
(* of diff are those of diff on the two resolved nodes, after the one      *)
(* insertion of the new id; ids 1 -> Text x, 2 -> Text y give exactly      *)
(* [set_text(y)] and cached_roots = {2}.                                   *)
(***************************************************************************)
C6_CacheDivergence ==
    (op = "diff" /\ old.kind = "Cached" /\ new.kind = "Cached"
        /\ old.id # new.id) =>
        LET inner == diff(cached_set, 1, cached_set[old.id], cached_set[new.id])
        IN  /\ change_list = Instructions(inner)
            /\ Observable(trace) = cached_roots_insert(new.id) \o Observable(inner)
            /\ cached_roots = {new.id} \cup CachedRootsAfter(inner)
            /\ registry = RegistryAfter(registry0, inner)
            /\ (cached_set[1] = TextNode("x") /\ cached_set[2] = TextNode("y")
                /\ old.id = 1 /\ new.id = 2) =>
                  /\ change_list = << <<"set_text", "y">> >>
                  /\ cached_roots = {2}

C6_Witness ==
    /\ op = "diff"
    /\ old = CachedNode(1)
    /\ new = CachedNode(2)
    /\ cached_set[1] = TextNode("x")
    /\ change_list = << <<"set_text", "y">> >>
    /\ cached_roots = {2}

C6_WitnessElements ==
    /\ op = "diff"
    /\ old = CachedNode(1)
    /\ new = CachedNode(2)
    /\ cached_set[1].kind = "Element"
    /\ cached_roots = {1, 2}
    /\ CountInstr(change_list, "replace_with") = 1

(***************************************************************************)
(* C7 (Text/Text): for two Text nodes diff emits exactly                   *)
(* [set_text(new_text)] if the texts differ and nothing if they are equal, *)
(* and neither touches the registry nor cached_roots.                      *)
(***************************************************************************)
C7_TextText ==
    (op = "diff" /\ old.kind = "Text" /\ new.kind = "Text") =>
        /\ change_list = IF new.text # old.text
                         THEN << <<"set_text", new.text>> >>
                         ELSE <<>>
        /\ Observable(trace) = <<>>
        /\ registry = registry0
        /\ cached_roots = {}

C7_Witness ==
    /\ op = "diff"
    /\ old = TextNode("x")
    /\ new = TextNode("y")
    /\ change_list = << <<"set_text", "y">> >>

C7_WitnessEqual ==
    /\ op = "diff"
    /\ old = TextNode("y")
    /\ new = TextNode("y")
    /\ change_list = <<>>

(***************************************************************************)
(* The effects of a call by nesting depth.                                 *)
(***************************************************************************)
(* The instructions the body of the call of depth d emits itself. *)
OwnInstructions(effects, d) ==
    LET own == SelectSeq(effects, LAMBDA e : e[1] = "instr" /\ e[3] = d)
    IN  [i \in 1..Len(own) |-> own[i][2]]

(* The calls of depth d. *)
CallsAt(effects, d) == SelectSeq(effects, LAMBDA e : e[1] = "call" /\ e[3] = d)

Repeat(x, n) == [i \in 1..n |-> x]

AlignedDiffs(n) == [i \in 1..n |-> <<"call", "diff", 1, <<old[i], new[i]>> >>]

(***************************************************************************)
(* C8 (children shrink): diff_children on non-empty sequences with         *)
(* len(old) > len(new) diffs exactly the pairs 1..len(new), makes no other *)
(* call, and emits itself push_first_child, one pop_push_next_sibling      *)
(* before each later pair, then as its last two effects one                *)
(* pop_push_next_sibling, which leaves the cursor on the first excess old  *)
(* sibling, and one remove_self_and_next_siblings.                         *)
(***************************************************************************)
C8_ChildrenShrink ==
    (op = "diff_children" /\ Len(new) > 0 /\ Len(old) > Len(new)) =>
        /\ CallsAt(trace, 1) = AlignedDiffs(Len(new))
        /\ OwnInstructions(trace, 0)
             = << <<"push_first_child">> >>
               \o Repeat(<<"pop_push_next_sibling">>, Len(new) - 1)
               \o << <<"pop_push_next_sibling">>,
                     <<"remove_self_and_next_siblings">> >>
        /\ trace[Len(trace) - 1] = <<"instr", <<"pop_push_next_sibling">>, 0>>
        /\ trace[Len(trace)]
             = <<"instr", <<"remove_self_and_next_siblings">>, 0>>
        /\ RunCursor(<<Root>>, SubSeq(change_list, 1, Len(change_list) - 1), 1)
             = <<Root, Root \o <<Len(new)>> >>

C8_Witness ==
    /\ op = "diff_children"
    /\ Len(old) = 3
    /\ Len(new) = 1
    /\ old[1] = new[1]
    /\ change_list = << <<"push_first_child">>, <<"pop_push_next_sibling">>,
                        <<"remove_self_and_next_siblings">> >>

C8_WitnessTwoPairs ==
    /\ op = "diff_children"
    /\ Len(old) = 3
    /\ Len(new) = 2
    /\ CountInstr(change_list, "replace_with") = 2

(***************************************************************************)
(* C9 (children growth): diff_children on non-empty sequences with         *)
(* len(new) > len(old) diffs exactly the pairs 1..len(old), emits itself   *)
(* push_first_child, one pop_push_next_sibling before each later pair and  *)
(* then pop, which leaves the cursor on the parent, and right after that   *)
(* pop calls create_children on the                                        *)
(* remaining new children, which creates and appends each of them in       *)
(* order; it emits no remove_self_and_next_siblings itself.                *)
(***************************************************************************)
C9_ChildrenGrowth ==
    (op = "diff_children" /\ Len(old) > 0 /\ Len(new) > Len(old)) =>
        LET rest == SubSeq(new, Len(old) + 1, Len(new))
            at == CHOOSE k \in 1..Len(trace) :
                      /\ trace[k][1] = "call"
                      /\ trace[k][2] = "create_children"
                      /\ trace[k][3] = 1
            tail == SubSeq(trace, at + 1, Len(trace))
            made == SelectSeq(tail, LAMBDA e : \/ e[1] = "call" /\ e[3] = 2
                                               \/ e[1] = "instr" /\ e[3] = 1)
        IN  /\ CallsAt(trace, 1)
                 = AlignedDiffs(Len(old))
                   \o << <<"call", "create_children", 1, <<rest>> >> >>
            /\ OwnInstructions(trace, 0)
                 = << <<"push_first_child">> >>
                   \o Repeat(<<"pop_push_next_sibling">>, Len(old) - 1)
                   \o << <<"pop">> >>
            /\ trace[at - 1] = <<"instr", <<"pop">>, 0>>
            /\ RunCursor(<<Root>>, Instructions(SubSeq(trace, 1, at - 1)), 1)
                 = <<Root>>
            /\ Len(made) = 2 * Len(rest)
            /\ \A j \in 1..Len(rest) :
                  /\ made[2 * j - 1] = <<"call", "create", 2, <<rest[j]>> >>
                  /\ made[2 * j] = <<"instr", <<"append_child">>, 1>>
            /\ trace[Len(trace)] = <<"instr", <<"append_child">>, 1>>

C9_Witness ==
    /\ op = "diff_children"
    /\ Len(old) = 1
    /\ Len(new) = 3
    /\ old[1] = new[1]
    /\ new[2] # new[3]
    /\ CountInstr(change_list, "append_child") >= 3
    /\ change_list[2] = <<"pop">>

(* The new attribute a is due a set_attribute against the old attributes. *)
NeedsSet(olds, a) ==
    \/ a.volatile
    \/ \A j \in 1..Len(olds) : olds[j].name # a.name
    \/ \E j \in 1..Len(olds) :
          /\ olds[j].name = a.name
          /\ olds[j].value # a.value
          /\ \A k \in 1..(j - 1) : olds[k].name # a.name

(***************************************************************************)
(* C10 (attribute set rule): the set_attribute instructions of             *)
(* diff_attributes are, in order, one for each new attribute that is       *)
(* volatile, or has no old attribute of its name, or whose value differs   *)
(* from that of the first old attribute of its name.                       *)
(***************************************************************************)
C10_AttributeSetRule ==
    op = "diff_attributes" =>
        LET sets == SelectSeq(change_list, LAMBDA ins : ins[1] = "set_attribute")
            due == SelectSeq(new, LAMBDA a : NeedsSet(old, a))
        IN  sets = [i \in 1..Len(due) |->
                       <<"set_attribute", due[i].name, due[i].value>>]

C10_Witness ==
    /\ op = "diff_attributes"
    /\ old = new
    /\ new = <<IdAttr("1"), ValueAttr("2")>>
    /\ change_list = << <<"set_attribute", "value", "2">> >>

(* The instructions of patching in place: listeners, attributes, children. *)
PatchingInstructions ==
    {"update_event_listener", "remove_event_listener", "remove_attribute",
     "push_first_child", "pop_push_next_sibling", "pop",
     "remove_self_and_next_siblings"}

(* The names of the calls in a sequence of effects. *)
CallNames(effects) ==
    {effects[i][2] : i \in {k \in 1..Len(effects) : effects[k][1] = "call"}}

(***************************************************************************)
(* C11 (tag/namespace change): for two Elements whose tag names or         *)
(* namespaces differ, diff emits exactly the instructions of create(new)   *)
(* and then one replace_with, calls remove_subtree(old) so that no         *)
(* listener under old stays registered, and neither calls diff_listeners,  *)
(* diff_attributes or diff_children nor emits any instruction of patching  *)
(* in place, whatever the children are.                                    *)
(***************************************************************************)
C11_TagNamespaceChange ==
    (op = "diff" /\ old.kind = "Element" /\ new.kind = "Element"
        /\ (new.tag_name # old.tag_name \/ new.namespace # old.namespace)) =>
        /\ change_list = Instructions(create(cached_set, 1, new))
                         \o << <<"replace_with">> >>
        /\ CallsAt(trace, 1) = << <<"call", "create", 1, <<new>> >>,
                                  <<"call", "remove_subtree", 1, <<old>> >> >>
        /\ registry \cap ListenersOf(cached_set, old) = {}
        /\ CallNames(trace) \subseteq {"diff", "create", "remove_subtree"}
        /\ CountInstr(change_list, "replace_with") = 1
        /\ \A i \in 1..Len(change_list) :
              change_list[i][1] \notin PatchingInstructions

(* div replaced by span over the same children. *)
C11_Witness ==
    /\ op = "diff"
    /\ old.kind = "Element"
    /\ new.kind = "Element"
    /\ old.tag_name = "div"
    /\ new.tag_name = "span"
    /\ old.children = new.children
    /\ Len(new.children) = 2
    /\ old.listeners = <<Click2, Input1>>
    /\ registry0 # {}
    /\ registry \cap registry0 = {}
    /\ change_list[Len(change_list)] = <<"replace_with">>

(* Same tag, namespace svg against none. *)
C11_WitnessNamespace ==
    /\ op = "diff"
    /\ old.kind = "Element"
    /\ new.kind = "Element"
    /\ old.tag_name = new.tag_name
    /\ old.namespace = None
    /\ new.namespace = "svg"
    /\ old.attributes = new.attributes
    /\ change_list[1] = <<"create_element_ns", "div", "svg">>
    /\ change_list[Len(change_list)] = <<"replace_with">>

(* The node create is called on when `node` replaces another. *)
Created(cs, node) == IF node.kind = "Cached" THEN cs[node.id] ELSE node

(* diff(old, new) ran the replacement protocol, with remove_subtree(old)
   iff `removes`: its calls are create and then remove_subtree, a Cached new
   has its id recorded before it is created, the last effect is the one
   replace_with, and the pair is not diffed structurally. *)
ReplacementProtocol(removes) ==
    /\ CallsAt(trace, 1)
         = << <<"call", "create", 1, <<Created(cached_set, new)>> >> >>
           \o (IF removes THEN << <<"call", "remove_subtree", 1, <<old>> >> >>
                          ELSE <<>>)
    /\ new.kind = "Cached" =>
          /\ new.id \in cached_roots
          /\ SubSeq(trace, 2, 4)
               = cached_roots_insert(new.id) \o cached_set_get(new.id)
                 \o Call("create", 1, <<cached_set[new.id]>>)
    /\ new.kind # "Cached" => trace[2] = <<"call", "create", 1, <<new>> >>
    /\ change_list = Instructions(create(cached_set, 1, Created(cached_set, new)))
                     \o << <<"replace_with">> >>
    /\ trace[Len(trace)] = <<"instr", <<"replace_with">>, 0>>
    /\ CountInstr(change_list, "replace_with") = 1
    /\ CallsAt(trace, 0) = Call("diff", 0, <<old, new>>)
    /\ CallNames(trace) \subseteq {"diff", "create", "remove_subtree"}

(***************************************************************************)
(* C12 (kind-mismatch replacement): when the kinds of old and new differ,  *)
(* diff performs, in this order, create(new) (of the resolved node when    *)
(* new is Cached, whose id is recorded in cached_roots first), then        *)
(* remove_subtree(old) unless new is an Element and old is a Text node,    *)
(* then exactly one replace_with as its last instruction, and diffs        *)
(* nothing structurally.  When new is Cached, remove_subtree(old) is       *)
(* called for a Text old as well.                                          *)
(***************************************************************************)
C12_ReplacementProtocol ==
    (op = "diff" /\ old.kind # new.kind) =>
        ReplacementProtocol(~(new.kind = "Element" /\ old.kind = "Text"))

(* C12 as stated: remove_subtree(old) is called unless old is a Text node. *)
C12_RemoveUnlessOldText ==
    (op = "diff" /\ old.kind # new.kind) =>
        ReplacementProtocol(old.kind # "Text")

(* A Text node replaced by a Cached node that resolves to an Element. *)
C12_Witness ==
    /\ op = "diff"
    /\ old.kind = "Text"
    /\ new.kind = "Cached"
    /\ cached_set[new.id].kind = "Element"
    /\ <<"call", "remove_subtree", 1, <<old>> >>
         \in {trace[i] : i \in 1..Len(trace)}
    /\ new.id \in cached_roots
    /\ change_list[Len(change_list)] = <<"replace_with">>

(* An Element with listeners replaced by a Text node. *)
C12_WitnessTextForElement ==
    /\ op = "diff"
    /\ old.kind = "Element"
    /\ new.kind = "Text"
    /\ registry0 # {}
    /\ registry = {}
    /\ change_list = << <<"create_text_node", new.text>>, <<"replace_with">> >>

(* A Cached node replaced by an Element. *)
C12_WitnessElementForCached ==
    /\ op = "diff"
    /\ old.kind = "Cached"
    /\ new.kind = "Element"
    /\ Len(new.children) = 2
    /\ cached_roots = {1}
    /\ change_list[Len(change_list)] = <<"replace_with">>

(* Some listener of ls has the event name ev. *)
HasEvent(ls, ev) == \E j \in 1..Len(ls) : ls[j].event = ev

(* The registry operations of a sequence of effects, in order. *)
RegistryOps(effects) ==
    SelectSeq(effects, LAMBDA e : e[1] \in {"add", "remove"})

(***************************************************************************)
(* C13 (listener instruction rule): diff_listeners emits one instruction   *)
(* for each new listener, in order: update_event_listener(new) if some old *)
(* listener has its event name, new_event_listener(new) otherwise; then,   *)
(* for each old listener in order, remove_event_listener(event) iff no new *)
(* listener has that event name.  It adds every new listener to the        *)
(* registry and removes every old one, all additions before all removals.  *)
(***************************************************************************)
C13_ListenerRule ==
    op = "diff_listeners" =>
        LET gone == SelectSeq(old, LAMBDA l : ~HasEvent(new, l.event))
        IN  /\ change_list
                 = [i \in 1..Len(new) |->
                       IF HasEvent(old, new[i].event)
                       THEN <<"update_event_listener", new[i]>>
                       ELSE <<"new_event_listener", new[i]>>]
                   \o [i \in 1..Len(gone) |->
                          <<"remove_event_listener", gone[i].event>>]
            /\ RegistryOps(trace)
                 = [i \in 1..Len(new) |-> <<"add", new[i]>>]
                   \o [i \in 1..Len(old) |-> <<"remove", old[i]>>]

(* One listener rebound, one new, one removed. *)
C13_Witness ==
    /\ op = "diff_listeners"
    /\ old = <<Click1, Input1>>
    /\ new = <<Click2>>
    /\ change_list = << <<"update_event_listener", Click2>>,
                        <<"remove_event_listener", "input">> >>
    /\ registry = {Click2}

(* Two new listeners of one event name against none. *)
C13_WitnessDuplicate ==
    /\ op = "diff_listeners"
    /\ old = <<>>
    /\ new = <<Click1, Click2>>
    /\ change_list = << <<"new_event_listener", Click1>>,
                        <<"new_event_listener", Click2>> >>

(* Some attribute of as has the name n. *)
HasName(as, n) == \E j \in 1..Len(as) : as[j].name = n

(***************************************************************************)
(* C14 (attribute removal rule): the remove_attribute instructions of      *)
(* diff_attributes are, in order, one for each old attribute whose name no *)
(* new attribute has, volatile or not, and all of them come after all the  *)
(* set_attribute instructions of the call.                                 *)
(***************************************************************************)
C14_AttributeRemovalRule ==
    op = "diff_attributes" =>
        LET removes == SelectSeq(change_list,
                                 LAMBDA ins : ins[1] = "remove_attribute")
            gone == SelectSeq(old, LAMBDA a : ~HasName(new, a.name))
        IN  /\ removes = [i \in 1..Len(gone) |->
                             <<"remove_attribute", gone[i].name>>]
            /\ \A i, j \in 1..Len(change_list) :
                  (change_list[i][1] = "set_attribute"
                      /\ change_list[j][1] = "remove_attribute") => i < j

(* One old attribute kept by a volatile new one of its name, one removed,
   after the set_attribute instructions. *)
C14_Witness ==
    /\ op = "diff_attributes"
    /\ old = <<ValueAttr("1"), IdAttr("1")>>
    /\ new = <<ValueAttr("1")>>
    /\ change_list = << <<"set_attribute", "value", "1">>,
                        <<"remove_attribute", "id">> >>

(* Two old attributes of one name, no new one: two removals. *)
C14_WitnessDuplicate ==
    /\ op = "diff_attributes"
    /\ old = <<IdAttr("1"), IdAttr("2")>>
    /\ new = <<>>
    /\ change_list = << <<"remove_attribute", "id">>,
                        <<"remove_attribute", "id">> >>

(* The positions in the effects of the calls of diff of depth d. *)
DiffCalls(effects, d) ==
    {k \in 1..Len(effects) : /\ effects[k][1] = "call"
                             /\ effects[k][2] = "diff"
                             /\ effects[k][3] = d}

(* Those positions, in order. *)
DiffCallSeq(effects, d) ==
    SelectSeq([k \in 1..Len(effects) |-> k],
              LAMBDA k : k \in DiffCalls(effects, d))

(***************************************************************************)
(* C15 (document-order traversal): diff_children on two non-empty          *)
(* sequences diffs the pairs old[i], new[i] for i = 0..min(len)-1 in       *)
(* increasing order and no other pair; it emits push_first_child exactly   *)
(* once, immediately before the diff of pair 0, and one                    *)
(* pop_push_next_sibling immediately before the diff of each later pair,   *)
(* so that the diff of pair i starts with the cursor on child i.           *)
(***************************************************************************)
C15_DocumentOrder ==
    (op = "diff_children" /\ Len(old) > 0 /\ Len(new) > 0) =>
        LET k == Min(Len(old), Len(new))
            at == DiffCallSeq(trace, 1)
        IN  /\ Len(at) = k
            /\ \A i \in 1..k :
                  /\ trace[at[i]] = <<"call", "diff", 1, <<old[i], new[i]>> >>
                  /\ trace[at[i] - 1]
                       = IF i = 1
                         THEN <<"instr", <<"push_first_child">>, 0>>
                         ELSE <<"instr", <<"pop_push_next_sibling">>, 0>>
                  /\ RunCursor(<<Root>>,
                               Instructions(SubSeq(trace, 1, at[i] - 1)), 1)
                       = <<Root, Root \o <<i - 1>> >>
            /\ \A i, j \in 1..k : i < j => at[i] < at[j]
            /\ CountInstr(OwnInstructions(trace, 0), "push_first_child") = 1
            /\ CountInstr(OwnInstructions(trace, 0), "pop_push_next_sibling")
                 = (k - 1) + (IF Len(old) > k THEN 1 ELSE 0)

(* Three aligned pairs, one of them descending into its own children. *)
C15_Witness ==
    /\ op = "diff_children"
    /\ Len(old) = 3
    /\ Len(new) = 3
    /\ old[1] # new[1]
    /\ old[2].kind = "Element"
    /\ new[2].kind = "Element"
    /\ CountInstr(change_list, "push_first_child") = 2
    /\ CountInstr(change_list, "pop_push_next_sibling") = 2
    /\ Cardinality(DiffCalls(trace, 1)) = 3

(***************************************************************************)
(* C16 (clearing children): diff_children with no new child and some old   *)
(* child calls remove_subtree once for each old child, in order, and then  *)
(* emits one set_text("") and no other instruction; it leaves no listener  *)
(* of an old child registered.  With no child on either side it emits      *)
(* nothing, calls nothing and touches neither the registry nor             *)
(* cached_roots.                                                           *)
(***************************************************************************)
C16_ClearingChildren ==
    (op = "diff_children" /\ Len(new) = 0) =>
        IF Len(old) > 0
        THEN /\ change_list = << <<"set_text", "">> >>
             /\ CallsAt(trace, 1) = Call("remove_children", 1, <<old>>)
             /\ CallsAt(trace, 2)
                  = [i \in 1..Len(old) |->
                        <<"call", "remove_subtree", 2, <<old[i]>> >>]
             /\ trace[Len(trace)] = <<"instr", <<"set_text", "">>, 1>>
             /\ CallNames(trace)
                  = {"diff_children", "remove_children", "remove_subtree"}
             /\ \A e \in {trace[i] : i \in 1..Len(trace)} :
                   e[1] \notin {"add", "insert"}
             /\ \A i \in 1..Len(old) :
                   registry \cap ListenersOf(cached_set, old[i]) = {}
             /\ cached_roots = {}
        ELSE /\ trace = Call("diff_children", 0, <<old, new>>)
             /\ change_list = <<>>
             /\ registry = registry0
             /\ cached_roots = {}

(* Three old children with listeners, one of them behind a Cached node. *)
C16_Witness ==
    /\ op = "diff_children"
    /\ new = <<>>
    /\ Len(old) = 3
    /\ old[1] = CachedNode(1)
    /\ old[3].kind = "Element"
    /\ cached_set[1].kind = "Element"
    /\ registry0 # {}
    /\ registry = {}
    /\ change_list = << <<"set_text", "">> >>

C16_WitnessBothEmpty ==
    /\ op = "diff_children"
    /\ new = <<>>
    /\ old = <<>>
    /\ Len(trace) = 1
    /\ change_list = <<>>

(* The position in the effects of the call `name` of depth d. *)
CallOf(effects, name, d) ==
    CHOOSE k \in 1..Len(effects) : /\ effects[k][1] = "call"
                                   /\ effects[k][2] = name
                                   /\ effects[k][3] = d

(***************************************************************************)
(* C17 (in-place patch order): for two Elements of one tag name and        *)
(* namespace, diff calls diff_listeners, diff_attributes and diff_children *)
(* once each, in that order, on the listeners, attributes and children of  *)
(* the pair; the change list is the instructions of the first, then those  *)
(* of the second, then those of the third, and diff itself emits nothing:  *)
(* the element is not created again and not replaced.                      *)
(***************************************************************************)
C17_PatchOrder ==
    (op = "diff" /\ old.kind = "Element" /\ new.kind = "Element"
        /\ old.tag_name = new.tag_name /\ old.namespace = new.namespace) =>
        LET ls == CallOf(trace, "diff_listeners", 1)
            as == CallOf(trace, "diff_attributes", 1)
            ch == CallOf(trace, "diff_children", 1)
        IN  /\ CallsAt(trace, 1)
                 = << <<"call", "diff_listeners", 1,
                        <<old.listeners, new.listeners>> >>,
                      <<"call", "diff_attributes", 1,
                        <<old.attributes, new.attributes>> >>,
                      <<"call", "diff_children", 1,
                        <<old.children, new.children>> >> >>
            /\ ls = 2 /\ ls < as /\ as < ch
            /\ Instructions(SubSeq(trace, ls, as - 1))
                 = Instructions(diff_listeners(1, old.listeners, new.listeners))
            /\ Instructions(SubSeq(trace, as, ch - 1))
                 = Instructions(diff_attributes(1, old.attributes,
                                                new.attributes))
            /\ Instructions(SubSeq(trace, ch, Len(trace)))
                 = Instructions(diff_children(cached_set, 1, old.children,
                                              new.children))
            /\ \A i \in ls..(as - 1) :
                  trace[i][1] = "instr" =>
                      trace[i][2][1] \in {"update_event_listener",
                                          "new_event_listener",
                                          "remove_event_listener"}
            /\ \A i \in as..(ch - 1) :
                  trace[i][1] = "instr" =>
                      trace[i][2][1] \in {"set_attribute", "remove_attribute"}
            /\ OwnInstructions(trace, 0) = <<>>
            /\ "create" \notin CallNames(SubSeq(trace, 1, ch))

(* Listeners, attributes and children all patched. *)
C17_Witness ==
    /\ op = "diff"
    /\ old.kind = "Element"
    /\ new.kind = "Element"
    /\ old.listeners = <<Click2, Input1>>
    /\ new.listeners = <<Click1>>
    /\ Len(new.children) = 2
    /\ Len(old.children) = 1
    /\ Len(change_list) > 5
    /\ SubSeq(change_list, 1, 5)
         = << <<"update_event_listener", Click1>>,
              <<"remove_event_listener", "input">>,
              <<"set_attribute", "id", "1">>,
              <<"remove_attribute", "value">>,
              <<"push_first_child">> >>

(* The instructions create can emit. *)
CreateInstructions ==
    Creates \cup {"new_event_listener", "set_attribute", "append_child"}

(* Node-creating instructions less append_child among the first n of cl. *)
Surplus(cl, n) ==
    Cardinality({i \in 1..n : cl[i][1] \in Creates})
    - Cardinality({i \in 1..n : cl[i][1] = "append_child"})

(* What create of the element e at depth d does before its children: the
   node, each listener registered and announced, each attribute set. *)
ElementHead(e, d) ==
    << <<"instr", IF e.namespace # None
                  THEN <<"create_element_ns", e.tag_name, e.namespace>>
                  ELSE <<"create_element", e.tag_name>>, d>> >>
    \o [i \in 1..(2 * Len(e.listeners)) |->
           IF i % 2 = 1 THEN <<"add", e.listeners[(i + 1) \div 2]>>
           ELSE <<"instr", <<"new_event_listener", e.listeners[i \div 2]>>, d>>]
    \o [i \in 1..Len(e.attributes) |->
           <<"instr", <<"set_attribute", e.attributes[i].name,
                        e.attributes[i].value>>, d>>]

(***************************************************************************)
(* C18 (fresh-subtree stack effect): the instructions of create(node), for *)
(* a Text, an Element of any depth or a Cached node, are node creations,   *)
(* new_event_listener, set_attribute and append_child only: no cursor      *)
(* move, no replace_with, no removal.  The first one creates a node; there *)
(* is exactly one more node creation than append_child, and at least one   *)
(* more in every non-empty prefix, so that create leaves exactly one new   *)
(* node on top of the builder's stack.  Every listener of the subtree is   *)
(* registered, and every element created has its listeners registered and  *)
(* announced before its attributes are set, and these before its first     *)
(* child is created; each child is appended after it is created.           *)
(***************************************************************************)
C18_FreshSubtree ==
    op = "create" =>
        /\ \A i \in 1..Len(change_list) : change_list[i][1] \in CreateInstructions
        /\ Len(change_list) > 0
        /\ change_list[1][1] \in Creates
        /\ Surplus(change_list, Len(change_list)) = 1
        /\ \A n \in 1..Len(change_list) : Surplus(change_list, n) >= 1
        /\ RunCursor(<<Root>>, change_list, 1) = <<Root, Fresh>>
        /\ registry = ListenersOf(cached_set, new)
        /\ \A k \in 1..Len(trace) :
              (trace[k][1] = "call" /\ trace[k][4][1].kind = "Element") =>
                  LET e == trace[k][4][1]
                      d == trace[k][3]
                      head == ElementHead(e, d)
                      own == OwnInstructions(SubSeq(trace, k, Len(trace)), d)
                  IN  /\ trace[k][2] = "create"
                      /\ k + Len(head) <= Len(trace)
                      /\ SubSeq(trace, k + 1, k + Len(head)) = head
                      /\ e.children # <<>> =>
                            trace[k + Len(head) + 1]
                              = <<"call", "create", d + 1, <<e.children[1]>> >>
                      /\ Len(own) >= Len(head) - Len(e.listeners)
                                       + Len(e.children)
                      /\ \A j \in 1..Len(e.children) :
                            own[Len(head) - Len(e.listeners) + j]
                              = <<"append_child">>

(* An element with two listeners, two attributes and two children, one of
   them an element. *)
C18_Witness ==
    /\ op = "create"
    /\ new.kind = "Element"
    /\ new.listeners = <<Click2, Input1>>
    /\ Len(new.attributes) = 2
    /\ Len(new.children) = 2
    /\ new.children[1].kind = "Element"
    /\ CountInstr(change_list, "append_child") = 3
    /\ registry = {Click1, Click2, Input1}
    /\ RunCursor(<<Root>>, change_list, 1) = <<Root, Fresh>>

(* A Cached node that resolves to an element holding a Cached node. *)
C18_WitnessCached ==
    /\ op = "create"
    /\ new = CachedNode(2)
    /\ cached_set[2].kind = "Element"
    /\ cached_roots = {1, 2}
    /\ change_list = << <<"create_element", "div">>,
                        <<"new_event_listener", Click2>>,
                        <<"create_element", "span">>,
                        <<"new_event_listener", Click1>>,
                        <<"create_text_node", "y">>,
                        <<"append_child">>,
                        <<"append_child">> >>

RECURSIVE CachedIdsIn(_)

(* The ids of the Cached nodes that occur in the tree `node` itself. *)
CachedIdsIn(node) ==
    CASE node.kind = "Cached" -> {node.id}
      [] node.kind = "Element" ->
           UNION {CachedIdsIn(node.children[i]) : i \in 1..Len(node.children)}
      [] OTHER -> {}

RECURSIVE ReachableIds(_, _)

(* The ids of the Cached nodes reachable from `node`, in the tree itself or
   through the resolution of its Cached nodes. *)
ReachableIds(cs, node) ==
    CASE node.kind = "Cached" -> {node.id} \cup ReachableIds(cs, cs[node.id])
      [] node.kind = "Element" ->
           UNION {ReachableIds(cs, node.children[i]) :
                      i \in 1..Len(node.children)}
      [] OTHER -> {}

(***************************************************************************)
(* C19 (cached_roots bounds): after diff(old, new) on an empty             *)
(* cached_roots, cached_roots holds the id of every Cached node that       *)
(* occurs in the new tree itself and holds only ids of Cached nodes        *)
(* reachable from new, in the tree or through the CachedSet; an id         *)
(* reachable from old only is not recorded.                                *)
(***************************************************************************)
C19_CachedRootsBounds ==
    op = "diff" =>
        /\ CachedIdsIn(new) \subseteq cached_roots
        /\ cached_roots \subseteq ReachableIds(cached_set, new)
        /\ \A id \in ReachableIds(cached_set, old) :
              id \notin ReachableIds(cached_set, new) => id \notin cached_roots

(* The old tree reaches both ids, the new one only one of them. *)
C19_Witness ==
    /\ op = "diff"
    /\ old = CachedNode(2)
    /\ new.kind = "Element"
    /\ ReachableIds(cached_set, old) = {1, 2}
    /\ CachedIdsIn(new) = {1}
    /\ cached_roots = {1}

(* A short-circuit: ids behind the resolution of new are not recorded. *)
C19_WitnessStrict ==
    /\ op = "diff"
    /\ old = CachedNode(2)
    /\ new = CachedNode(2)
    /\ ReachableIds(cached_set, new) = {1, 2}
    /\ cached_roots = {2}

(* Old ids only: nothing is recorded. *)
C19_WitnessOldOnly ==
    /\ op = "diff"
    /\ old.kind = "Element"
    /\ new.kind = "Element"
    /\ old.tag_name = new.tag_name
    /\ CachedIdsIn(old) = {1}
    /\ ReachableIds(cached_set, new) = {}
    /\ Len(new.children) > 0
    /\ cached_roots = {}

(* The calls of `name` among the effects. *)
CallsOf(effects, name) ==
    {k \in 1..Len(effects) : effects[k][1] = "call" /\ effects[k][2] = name}

(* Run call by call, diff has the effects of diff. *)
RunIsDiff ==
    op = "returned" =>
        /\ trace = diff(cached_set, 0, old, new)
        /\ pending = <<>>

(* While diff runs, a call is the first thing left to do. *)
RunHasWork ==
    op = "running" => (pending # <<>> /\ Head(pending)[1] = "frame")

(***************************************************************************)
(* C20 (termination): for two finite trees and a CachedSet that holds      *)
(* every id referenced and resolves without a cycle, diff(old, new), once  *)
(* entered, eventually returns, after finitely many calls of diff and      *)
(* create.                                                                 *)
(***************************************************************************)
C20_Termination == (op = "running") ~> (op = "returned")

(* diff has returned after recursing through two Cached nodes of different
   ids, the elements they resolve to and a Cached child. *)
C20_Witness ==
    /\ op = "returned"
    /\ old = CachedNode(1)
    /\ new = CachedNode(2)
    /\ cached_set[2].kind = "Element"
    /\ pending = <<>>
    /\ Cardinality(CallsOf(trace, "diff")) = 2
    /\ Cardinality(CallsOf(trace, "create")) >= 3
    /\ cached_roots = {1, 2}

(* diff has returned after diffing the children of two elements. *)
C20_WitnessChildren ==
    /\ op = "returned"
    /\ old.kind = "Element"
    /\ new.kind = "Element"
    /\ Len(old.children) = 2
    /\ Len(new.children) = 2
    /\ Cardinality(CallsOf(trace, "diff")) = 4
    /\ Cardinality(CallsOf(trace, "create")) >= 1

=============================================================================
